---- MODULE Spec2Model ----
(***************************************************************************)
(* Model of the OpenAI proxy server in src/proxy/main.go.                  *)
(*                                                                         *)
(* JSON text is modelled by its parsed value (a tagged record per JSON     *)
(* type); a JSON object is a function whose DOMAIN is the set of keys      *)
(* present.  Go structs are records carrying every field; a pointer field  *)
(* is <<>> for nil and <<v>> for a pointer to v; a slice carries isNil.    *)
(* Numbers on the wire are counted in tenths (7 is 0.7, 1500 is 150), so   *)
(* that a *float64 field and an *int field decode differently.             *)
(* A formatted message (fmt.Errorf, http.Error) is the sequence of its     *)
(* text fragments, so that formatting is concatenation.                    *)
(***************************************************************************)
EXTENDS Integers, Sequences, FiniteSets, TLC

VARIABLES
    env,        \* the process environment read by main
    mainPc,     \* position of main
    client,     \* the RealOpenAIClient main builds (APIKey, BaseURL)
    routes,     \* patterns registered with http.HandleFunc
    listenAddr, \* the address given to http.ListenAndServe
    pc,         \* per request: position of its handler goroutine
    inbound,    \* per request: route, method and body as received
    parsed,     \* per request: the ChatCompletionRequest the handler decoded
    outbound,   \* per request: the HTTP request the client sent upstream
    calls,      \* per request: number of CreateChatCompletion invocations
    reply,      \* per request: the provider's answer as client.Do received it
    result,     \* per request: what CreateChatCompletion returned
    response,   \* per request: what the handler wrote to the ResponseWriter
    rtPc,       \* codec check: position
    rtReq,      \* codec check: the ChatCompletionRequest being serialised
    rtWire,     \* codec check: its wire form
    rtBack      \* codec check: the result of deserialising the wire form

vars == <<env, mainPc, client, routes, listenAddr, pc, inbound, parsed,
          outbound, calls, reply, result, response, rtPc, rtReq, rtWire, rtBack>>

serverVars == <<env, mainPc, client, routes, listenAddr, pc, inbound, parsed,
                outbound, calls, reply, result, response>>

codecVars == <<rtPc, rtReq, rtWire, rtBack>>

----------------------------------------------------------------------------
(* Bounds *)

NumRequests == 2
MaxMessages == 2

Requests == 1..NumRequests

----------------------------------------------------------------------------
(* JSON values *)

Null == [t |-> "null"]
Str(s) == [t |-> "str", s |-> s]
Num(n) == [t |-> "num", n |-> n]
Bool(b) == [t |-> "bool", b |-> b]
Arr(a) == [t |-> "arr", a |-> a]
Obj(o) == [t |-> "obj", o |-> o]

Has(o, k) == k \in DOMAIN o

\* json.Unmarshal's type check of one struct field against the wire value: a
\* key that is absent or null leaves the field untouched and is no error.
TypeOK(o, k, t) == Has(o, k) => o[k].t \in {"null", t}

----------------------------------------------------------------------------
(* Go values *)

NilPtr == <<>>
Ptr(v) == <<v>>
IsNil(p) == p = <<>>
Deref(p) == p[1]

NilSlice == [isNil |-> TRUE, elems |-> <<>>]
Slice(s) == [isNil |-> FALSE, elems |-> s]
len(sl) == Len(sl.elems)

Message(role, content) == [Role |-> role, Content |-> content]

ZeroMessage == Message("", "")

ZeroChatCompletionRequest ==
    [Model |-> "", Messages |-> NilSlice, Temperature |-> NilPtr,
     MaxTokens |-> NilPtr, TopP |-> NilPtr, Stream |-> NilPtr]

----------------------------------------------------------------------------
(* encoding/json on the struct types of main.go *)

\* Decoding never stops at a field of the wrong type: the field keeps its zero
\* value, the rest is decoded, and the first such error is what Unmarshal returns.
StrField(o, k) == IF Has(o, k) /\ o[k].t = "str" THEN o[k].s ELSE ""

\* An int field accepts only a whole number.
IntOK(o, k) == Has(o, k) => (o[k].t = "null" \/ (o[k].t = "num" /\ o[k].n % 10 = 0))
IsInt(o, k) == Has(o, k) /\ o[k].t = "num" /\ o[k].n % 10 = 0
IntField(o, k) == IF IsInt(o, k) THEN o[k].n \div 10 ELSE 0
IsA(o, k, t) == Has(o, k) /\ o[k].t = t
IntValue(i) == Num(i * 10)

\* Message: role and content, both always written.
MarshalMessage(m) ==
    Obj([k \in {"role", "content"} |->
            IF k = "role" THEN Str(m.Role) ELSE Str(m.Content)])

MessageOK(v) ==
    \/ v.t = "null"
    \/ v.t = "obj" /\ TypeOK(v.o, "role", "str") /\ TypeOK(v.o, "content", "str")

UnmarshalMessage(v) ==
    IF v.t # "obj" THEN ZeroMessage
    ELSE Message(StrField(v.o, "role"), StrField(v.o, "content"))

MarshalMessages(sl) ==
    IF sl.isNil THEN Null
    ELSE Arr([i \in 1..Len(sl.elems) |-> MarshalMessage(sl.elems[i])])

MessagesOK(o) ==
    Has(o, "messages") =>
        \/ o["messages"].t = "null"
        \/ /\ o["messages"].t = "arr"
           /\ \A i \in 1..Len(o["messages"].a) : MessageOK(o["messages"].a[i])

UnmarshalMessages(o) ==
    IF IsA(o, "messages", "arr")
    THEN Slice([i \in 1..Len(o["messages"].a) |-> UnmarshalMessage(o["messages"].a[i])])
    ELSE NilSlice

\* Mutant: omitempty as it acts on value fields, dropping zero and false too.
OptionalKeysOmitZero(req) ==
    (IF IsNil(req.Temperature) \/ Deref(req.Temperature) = 0 THEN {} ELSE {"temperature"}) \cup
    (IF IsNil(req.MaxTokens) \/ Deref(req.MaxTokens) = 0 THEN {} ELSE {"max_tokens"}) \cup
    (IF IsNil(req.TopP) \/ Deref(req.TopP) = 0 THEN {} ELSE {"top_p"}) \cup
    (IF IsNil(req.Stream) \/ Deref(req.Stream) = FALSE THEN {} ELSE {"stream"})

\* ChatCompletionRequest: model and messages always written, the four pointer
\* fields are omitempty and written exactly when the pointer is not nil.
OptionalKeys(req) ==
    (IF IsNil(req.Temperature) THEN {} ELSE {"temperature"}) \cup
    (IF IsNil(req.MaxTokens) THEN {} ELSE {"max_tokens"}) \cup
    (IF IsNil(req.TopP) THEN {} ELSE {"top_p"}) \cup
    (IF IsNil(req.Stream) THEN {} ELSE {"stream"})

MarshalChatCompletionRequest(req) ==
    Obj([k \in {"model", "messages"} \cup OptionalKeys(req) |->
            CASE k = "model" -> Str(req.Model)
              [] k = "messages" -> MarshalMessages(req.Messages)
              [] k = "temperature" -> Num(Deref(req.Temperature))
              [] k = "max_tokens" -> IntValue(Deref(req.MaxTokens))
              [] k = "top_p" -> Num(Deref(req.TopP))
              [] OTHER -> Bool(Deref(req.Stream))])

ChatCompletionRequestOK(v) ==
    \/ v.t = "null"
    \/ /\ v.t = "obj"
       /\ TypeOK(v.o, "model", "str")
       /\ MessagesOK(v.o)
       /\ TypeOK(v.o, "temperature", "num")
       /\ IntOK(v.o, "max_tokens")
       /\ TypeOK(v.o, "top_p", "num")
       /\ TypeOK(v.o, "stream", "bool")

UnmarshalChatCompletionRequest(v) ==
    IF v.t # "obj" THEN ZeroChatCompletionRequest
    ELSE [Model |-> StrField(v.o, "model"),
          Messages |-> UnmarshalMessages(v.o),
          Temperature |-> IF IsA(v.o, "temperature", "num") THEN Ptr(v.o["temperature"].n) ELSE NilPtr,
          MaxTokens |-> IF IsInt(v.o, "max_tokens") THEN Ptr(IntField(v.o, "max_tokens")) ELSE NilPtr,
          TopP |-> IF IsA(v.o, "top_p", "num") THEN Ptr(v.o["top_p"].n) ELSE NilPtr,
          Stream |-> IF IsA(v.o, "stream", "bool") THEN Ptr(v.o["stream"].b) ELSE NilPtr]

\* Choice, Usage and ChatCompletionResponse: no field is omitempty.
ZeroUsage == [PromptTokens |-> 0, CompletionTokens |-> 0, TotalTokens |-> 0]

ZeroChoice == [Index |-> 0, Message |-> ZeroMessage, FinishReason |-> ""]

ZeroChatCompletionResponse ==
    [ID |-> "", Object |-> "", Created |-> 0, Model |-> "",
     Choices |-> NilSlice, Usage |-> ZeroUsage]

MarshalUsage(u) ==
    Obj([k \in {"prompt_tokens", "completion_tokens", "total_tokens"} |->
            CASE k = "prompt_tokens" -> IntValue(u.PromptTokens)
              [] k = "completion_tokens" -> IntValue(u.CompletionTokens)
              [] OTHER -> IntValue(u.TotalTokens)])

UsageOK(v) ==
    \/ v.t = "null"
    \/ /\ v.t = "obj"
       /\ IntOK(v.o, "prompt_tokens")
       /\ IntOK(v.o, "completion_tokens")
       /\ IntOK(v.o, "total_tokens")

UnmarshalUsage(v) ==
    IF v.t # "obj" THEN ZeroUsage
    ELSE [PromptTokens |-> IntField(v.o, "prompt_tokens"),
          CompletionTokens |-> IntField(v.o, "completion_tokens"),
          TotalTokens |-> IntField(v.o, "total_tokens")]

MarshalChoice(c) ==
    Obj([k \in {"index", "message", "finish_reason"} |->
            CASE k = "index" -> IntValue(c.Index)
              [] k = "message" -> MarshalMessage(c.Message)
              [] OTHER -> Str(c.FinishReason)])

ChoiceOK(v) ==
    \/ v.t = "null"
    \/ /\ v.t = "obj"
       /\ IntOK(v.o, "index")
       /\ Has(v.o, "message") => MessageOK(v.o["message"])
       /\ TypeOK(v.o, "finish_reason", "str")

UnmarshalChoice(v) ==
    IF v.t # "obj" THEN ZeroChoice
    ELSE [Index |-> IntField(v.o, "index"),
          Message |-> IF Has(v.o, "message") THEN UnmarshalMessage(v.o["message"])
                      ELSE ZeroMessage,
          FinishReason |-> StrField(v.o, "finish_reason")]

\* Mutant: the choices written last first.
MarshalChoicesReversed(sl) ==
    IF sl.isNil THEN Null
    ELSE Arr([i \in 1..Len(sl.elems) |-> MarshalChoice(sl.elems[Len(sl.elems) + 1 - i])])

MarshalChoices(sl) ==
    IF sl.isNil THEN Null
    ELSE Arr([i \in 1..Len(sl.elems) |-> MarshalChoice(sl.elems[i])])

MarshalChatCompletionResponse(resp) ==
    Obj([k \in {"id", "object", "created", "model", "choices", "usage"} |->
            CASE k = "id" -> Str(resp.ID)
              [] k = "object" -> Str(resp.Object)
              [] k = "created" -> IntValue(resp.Created)
              [] k = "model" -> Str(resp.Model)
              [] k = "choices" -> MarshalChoices(resp.Choices)
              [] OTHER -> MarshalUsage(resp.Usage)])

ChatCompletionResponseOK(v) ==
    \/ v.t = "null"
    \/ /\ v.t = "obj"
       /\ TypeOK(v.o, "id", "str")
       /\ TypeOK(v.o, "object", "str")
       /\ IntOK(v.o, "created")
       /\ TypeOK(v.o, "model", "str")
       /\ Has(v.o, "choices") =>
            \/ v.o["choices"].t = "null"
            \/ /\ v.o["choices"].t = "arr"
               /\ \A i \in 1..Len(v.o["choices"].a) : ChoiceOK(v.o["choices"].a[i])
       /\ Has(v.o, "usage") => UsageOK(v.o["usage"])

UnmarshalChatCompletionResponse(v) ==
    IF v.t # "obj" THEN ZeroChatCompletionResponse
    ELSE [ID |-> StrField(v.o, "id"),
          Object |-> StrField(v.o, "object"),
          Created |-> IntField(v.o, "created"),
          Model |-> StrField(v.o, "model"),
          Choices |-> IF IsA(v.o, "choices", "arr")
                      THEN Slice([i \in 1..Len(v.o["choices"].a) |->
                                    UnmarshalChoice(v.o["choices"].a[i])])
                      ELSE NilSlice,
          Usage |-> IF Has(v.o, "usage") THEN UnmarshalUsage(v.o["usage"])
                    ELSE ZeroUsage]

\* ErrorResponse: {error: {message, type, code}}.
ZeroErrorResponse == [Error |-> [Message |-> "", Type |-> "", Code |-> ""]]

ErrorResponseOK(v) ==
    \/ v.t = "null"
    \/ /\ v.t = "obj"
       /\ Has(v.o, "error") =>
            \/ v.o["error"].t = "null"
            \/ /\ v.o["error"].t = "obj"
               /\ TypeOK(v.o["error"].o, "message", "str")
               /\ TypeOK(v.o["error"].o, "type", "str")
               /\ TypeOK(v.o["error"].o, "code", "str")

UnmarshalErrorResponse(v) ==
    IF v.t # "obj" \/ ~IsA(v.o, "error", "obj") THEN ZeroErrorResponse
    ELSE [Error |-> [Message |-> StrField(v.o["error"].o, "message"),
                     Type |-> StrField(v.o["error"].o, "type"),
                     Code |-> StrField(v.o["error"].o, "code")]]

\* A byte string: its text and, when the text is well-formed JSON, its value.
Bytes(text, json) == [text |-> text, json |-> json]

\* The text is well-formed JSON.
IsJSON(data) == ~IsNil(data.json)

\* json.Unmarshal(data, &v) returns nil: the text is JSON and fits the type of v.
\* What it leaves in v, starting from the zero value: text that is not JSON is
\* rejected before anything is decoded.
ParsesChatCompletionRequest(data) ==
    IsJSON(data) /\ ChatCompletionRequestOK(Deref(data.json))

DecodedChatCompletionRequest(data) ==
    IF IsJSON(data) THEN UnmarshalChatCompletionRequest(Deref(data.json))
    ELSE ZeroChatCompletionRequest

ParsesChatCompletionResponse(data) ==
    IsJSON(data) /\ ChatCompletionResponseOK(Deref(data.json))

DecodedChatCompletionResponse(data) ==
    IF IsJSON(data) THEN UnmarshalChatCompletionResponse(Deref(data.json))
    ELSE ZeroChatCompletionResponse

ParsesErrorResponse(data) ==
    IsJSON(data) /\ ErrorResponseOK(Deref(data.json))

DecodedErrorResponse(data) ==
    IF IsJSON(data) THEN UnmarshalErrorResponse(Deref(data.json))
    ELSE ZeroErrorResponse

----------------------------------------------------------------------------
(* net/http pieces the handlers use *)

StatusOK == 200
StatusBadRequest == 400
StatusMethodNotAllowed == 405
StatusInternalServerError == 500

MethodPost == "POST"

\* Nothing written yet.
NoResponse == [status |-> 0, contentType |-> "", text |-> <<>>, json |-> NilPtr]

\* http.Error: plain text, the message followed by a newline.
httpError(msg, code) ==
    [status |-> code, contentType |-> "text/plain; charset=utf-8",
     text |-> msg \o <<"\n">>, json |-> NilPtr]

\* Header().Set("Content-Type", "application/json") and json.NewEncoder(w).Encode(v)
\* with no WriteHeader call: the status is the implicit 200.
EncodeJSON(v) ==
    [status |-> StatusOK, contentType |-> "application/json",
     text |-> <<>>, json |-> Ptr(v)]

----------------------------------------------------------------------------
(* RealOpenAIClient *)

NewRealOpenAIClient(apiKey) ==
    [APIKey |-> apiKey, BaseURL |-> "https://api.openai.com/v1"]

\* The (resp, err) pair of CreateChatCompletion.
NoResult == [resp |-> NilPtr, err |-> NilPtr]
Failed(msg) == [resp |-> NilPtr, err |-> Ptr(msg)]
Returned(resp) == [resp |-> Ptr(resp), err |-> NilPtr]

\* Up to client.Do: the HTTP request sent upstream.
CreateChatCompletionSend(c, req) ==
    [method |-> "POST",
     url |-> <<c.BaseURL, "/chat/completions">>,
     contentType |-> "application/json",
     authorization |-> <<"Bearer ", c.APIKey>>,
     body |-> MarshalChatCompletionRequest(req)]

\* Mutant: the provider's message is dropped, the status always reported.
apiErrorStatusOnly(status, body) ==
    <<"API error (status ", ToString(status), ")">>

\* The error for a reply whose status is not 200.
apiError(status, body) ==
    IF ~ParsesErrorResponse(body)
    THEN <<"API error (status ", ToString(status), "): ", body.text>>
    ELSE <<"API error: ",
           DecodedErrorResponse(body).Error.Message>>

\* From client.Do on: what the call returns for the provider's reply.
CreateChatCompletionReturn(rep) ==
    IF rep.transport = "sendfail"
    THEN Failed(<<"failed to send request: ", rep.cause>>)
    ELSE IF rep.transport = "readfail"
    THEN Failed(<<"failed to read response: ", rep.cause>>)
    ELSE IF rep.status # StatusOK
    THEN Failed(apiError(rep.status, rep.body))
    ELSE IF ~ParsesChatCompletionResponse(rep.body)
    THEN Failed(<<"failed to unmarshal response: ", "invalid JSON for ChatCompletionResponse">>)
    ELSE Returned(DecodedChatCompletionResponse(rep.body))

----------------------------------------------------------------------------
(* ProxyServer *)

\* Mutant: only GET is refused.
methodNotAllowedGetOnly(method) == method = "GET"

\* r.Method != http.MethodPost
methodNotAllowed(method) == method # MethodPost

\* Mutant: the error of json.Unmarshal is ignored.
invalidJSONIgnored(body) == FALSE

\* json.Unmarshal(body, &req) returned an error.
invalidJSON(body) == ~ParsesChatCompletionRequest(body)

\* Mutant: the model check is left out.
missingModelNever(req) == FALSE

\* req.Model == ""
missingModel(req) == req.Model = ""

\* Mutant: a nil check in place of the length check.
missingMessagesNilOnly(req) == req.Messages.isNil

\* len(req.Messages) == 0
missingMessages(req) == len(req.Messages) = 0

\* Mutant: the required fields are checked before the parse error and the
\* messages before the model.
handleChatCompletionsChecksReordered(method, readErr, body) ==
    LET req == DecodedChatCompletionRequest(body) IN
    IF methodNotAllowed(method)
    THEN [forward |-> FALSE, req |-> ZeroChatCompletionRequest,
          response |-> httpError(<<"Method not allowed">>, StatusMethodNotAllowed)]
    ELSE IF readErr
    THEN [forward |-> FALSE, req |-> ZeroChatCompletionRequest,
          response |-> httpError(<<"Failed to read request body">>, StatusBadRequest)]
    ELSE IF missingMessages(req)
    THEN [forward |-> FALSE, req |-> req,
          response |-> httpError(<<"Messages field is required and cannot be empty">>,
                                 StatusBadRequest)]
    ELSE IF missingModel(req)
    THEN [forward |-> FALSE, req |-> req,
          response |-> httpError(<<"Model field is required">>, StatusBadRequest)]
    ELSE IF invalidJSON(body)
    THEN [forward |-> FALSE, req |-> req,
          response |-> httpError(<<"Invalid JSON in request body">>, StatusBadRequest)]
    ELSE [forward |-> TRUE, req |-> req, response |-> NoResponse]

\* handleChatCompletions up to the upstream call: the checks in source order.
\* forward says whether s.client.CreateChatCompletion(req) is invoked.
handleChatCompletionsChecks(method, readErr, body) ==
    LET req == DecodedChatCompletionRequest(body) IN
    IF methodNotAllowed(method)
    THEN [forward |-> FALSE, req |-> ZeroChatCompletionRequest,
          response |-> httpError(<<"Method not allowed">>, StatusMethodNotAllowed)]
    ELSE IF readErr
    THEN [forward |-> FALSE, req |-> ZeroChatCompletionRequest,
          response |-> httpError(<<"Failed to read request body">>, StatusBadRequest)]
    ELSE IF invalidJSON(body)
    THEN [forward |-> FALSE, req |-> req,
          response |-> httpError(<<"Invalid JSON in request body">>, StatusBadRequest)]
    ELSE IF missingModel(req)
    THEN [forward |-> FALSE, req |-> req,
          response |-> httpError(<<"Model field is required">>, StatusBadRequest)]
    ELSE IF missingMessages(req)
    THEN [forward |-> FALSE, req |-> req,
          response |-> httpError(<<"Messages field is required and cannot be empty">>,
                                 StatusBadRequest)]
    ELSE [forward |-> TRUE, req |-> req, response |-> NoResponse]

\* Mutant: the error is kept in a field of the server that every handler
\* goroutine reads, so a failure of one request shows in the others.
handleChatCompletionsRespondShared(res) ==
    IF \E q \in Requests : pc[q] = "done" /\ ~IsNil(result[q].err)
    THEN httpError(<<"OpenAI API error: ">>
                     \o Deref(result[CHOOSE q \in Requests :
                                        pc[q] = "done" /\ ~IsNil(result[q].err)].err),
                   StatusInternalServerError)
    ELSE IF ~IsNil(res.err)
    THEN httpError(<<"OpenAI API error: ">> \o Deref(res.err), StatusInternalServerError)
    ELSE EncodeJSON(MarshalChatCompletionResponse(Deref(res.resp)))

\* Mutant: a generic message, the client's error only logged.
handleChatCompletionsRespondGeneric(res) ==
    IF ~IsNil(res.err)
    THEN httpError(<<"Internal server error">>, StatusInternalServerError)
    ELSE EncodeJSON(MarshalChatCompletionResponse(Deref(res.resp)))

\* handleChatCompletions after the upstream call returned.
handleChatCompletionsRespond(res) ==
    IF ~IsNil(res.err)
    THEN httpError(<<"OpenAI API error: ">> \o Deref(res.err), StatusInternalServerError)
    ELSE EncodeJSON(MarshalChatCompletionResponse(Deref(res.resp)))

\* Mutant: another status word.
handleHealthRespondOk ==
    EncodeJSON(Obj([k \in {"status"} |-> Str("ok")]))

handleHealthRespond ==
    EncodeJSON(Obj([k \in {"status"} |-> Str("healthy")]))

----------------------------------------------------------------------------
(* Inputs: the environment, inbound requests and provider replies *)

Environments == [OPENAI_API_KEY : {"", "sk-test"}, PORT : {"", "3000"}]

Methods == {"POST", "GET", "DELETE"}

MsgObj(role, content) == Obj(("role" :> Str(role)) @@ ("content" :> Str(content)))

SystemMsg == MsgObj("system", "You are a helpful assistant.")
UserMsg == MsgObj("user", "Hello!")

\* Bodies that are not a ChatCompletionRequest: no JSON, or a field of the
\* wrong JSON type.
MalformedBodies ==
    { Bytes("invalid json", NilPtr),
      Bytes("", NilPtr),
      Bytes("{\"model\":123,\"messages\":[user]}",
            Ptr(Obj(("model" :> Num(1230)) @@ ("messages" :> Arr(<<UserMsg>>))))),
      Bytes("{\"model\":\"gpt-3.5-turbo\",\"messages\":[user],\"max_tokens\":1.5}",
            Ptr(Obj(("model" :> Str("gpt-3.5-turbo")) @@ ("messages" :> Arr(<<UserMsg>>))
                    @@ ("max_tokens" :> Num(15))))) }

\* Bodies that parse but lack a model or messages.
IncompleteBodies ==
    { Bytes("null", Ptr(Null)),
      Bytes("{\"messages\":[user]}", Ptr(Obj("messages" :> Arr(<<UserMsg>>)))),
      Bytes("{\"model\":\"\",\"messages\":[user],\"temperature\":0.7}",
            Ptr(Obj(("model" :> Str("")) @@ ("messages" :> Arr(<<UserMsg>>))
                    @@ ("temperature" :> Num(7))))),
      Bytes("{\"model\":\"gpt-3.5-turbo\"}", Ptr(Obj("model" :> Str("gpt-3.5-turbo")))),
      Bytes("{\"model\":\"gpt-3.5-turbo\",\"messages\":[]}",
            Ptr(Obj(("model" :> Str("gpt-3.5-turbo")) @@ ("messages" :> Arr(<<>>))))),
      Bytes("{\"model\":\"gpt-3.5-turbo\",\"messages\":null,\"stream\":true}",
            Ptr(Obj(("model" :> Str("gpt-3.5-turbo")) @@ ("messages" :> Null)
                    @@ ("stream" :> Bool(TRUE))))),
      Bytes("{\"model\":\"\",\"messages\":[]}",
            Ptr(Obj(("model" :> Str("")) @@ ("messages" :> Arr(<<>>))))) }

\* Bodies with a model and at least one message.
ValidBodies ==
    { Bytes("{\"model\":\"gpt-3.5-turbo\",\"messages\":[system,user],\"temperature\":0.7,\"max_tokens\":0,\"stream\":false}",
            Ptr(Obj(("model" :> Str("gpt-3.5-turbo"))
                    @@ ("messages" :> Arr(<<SystemMsg, UserMsg>>))
                    @@ ("temperature" :> Num(7)) @@ ("max_tokens" :> Num(0))
                    @@ ("stream" :> Bool(FALSE))))),
      Bytes("{\"model\":\"gpt-4\",\"messages\":[user,system],\"n\":2}",
            Ptr(Obj(("model" :> Str("gpt-4")) @@ ("messages" :> Arr(<<UserMsg, SystemMsg>>))
                    @@ ("n" :> Num(20))))) }

InboundBodies == MalformedBodies \cup IncompleteBodies \cup ValidBodies

NoRequest == [route |-> "", method |-> "", readErr |-> FALSE, body |-> Bytes("", NilPtr)]

\* The provider's answers.
ChoiceObj(index, content, reason) ==
    Obj(("index" :> Num(index * 10)) @@ ("message" :> MsgObj("assistant", content))
        @@ ("finish_reason" :> Str(reason)))

CompletionBody ==
    Bytes("{\"id\":\"chatcmpl-test123\",...}",
          Ptr(Obj(("id" :> Str("chatcmpl-test123")) @@ ("object" :> Str("chat.completion"))
                  @@ ("created" :> Num(17000)) @@ ("model" :> Str("gpt-3.5-turbo"))
                  @@ ("choices" :> Arr(<<ChoiceObj(0, "Hello!", "stop"),
                                         ChoiceObj(1, "Hi there", "length")>>))
                  @@ ("usage" :> Obj(("prompt_tokens" :> Num(120))
                                     @@ ("completion_tokens" :> Num(200))
                                     @@ ("total_tokens" :> Num(320))))
                  @@ ("system_fingerprint" :> Str("fp_1")))))

ErrorBody ==
    Bytes("{\"error\":{\"message\":\"Rate limit exceeded\",\"type\":\"requests\",\"code\":null}}",
          Ptr(Obj("error" :> Obj(("message" :> Str("Rate limit exceeded"))
                                 @@ ("type" :> Str("requests")) @@ ("code" :> Null)))))

ProviderBodies ==
    { CompletionBody,
      ErrorBody,
      Bytes("{\"error\":\"unauthorized\"}", Ptr(Obj("error" :> Str("unauthorized")))),
      Bytes("upstream unavailable", NilPtr) }

ProviderStatuses == {200, 201, 429}

NoReply == [transport |-> "", cause |-> "", status |-> 0, body |-> Bytes("", NilPtr)]

ProviderReplies ==
    { [transport |-> t, cause |-> "connection reset", status |-> 0, body |-> Bytes("", NilPtr)] :
        t \in {"sendfail", "readfail"} }
    \cup [transport : {"ok"}, cause : {""}, status : ProviderStatuses, body : ProviderBodies]

----------------------------------------------------------------------------
(* The server: main and the request handlers *)

ServerInit ==
    /\ env \in Environments
    /\ mainPc = "start"
    /\ client = NilPtr
    /\ routes = {}
    /\ listenAddr = <<>>
    /\ pc = [r \in Requests |-> "idle"]
    /\ inbound = [r \in Requests |-> NoRequest]
    /\ parsed = [r \in Requests |-> ZeroChatCompletionRequest]
    /\ outbound = [r \in Requests |-> NilPtr]
    /\ calls = [r \in Requests |-> 0]
    /\ reply = [r \in Requests |-> NoReply]
    /\ result = [r \in Requests |-> NoResult]
    /\ response = [r \in Requests |-> NoResponse]

CodecIdle ==
    /\ rtPc = "off"
    /\ rtReq = ZeroChatCompletionRequest
    /\ rtWire = Null
    /\ rtBack = ZeroChatCompletionRequest

Init == ServerInit /\ CodecIdle

\* main: read the credential, build the client and the server, or log.Fatal.
mainCreate ==
    /\ mainPc = "start"
    /\ IF env.OPENAI_API_KEY = ""
       THEN mainPc' = "fatal" /\ client' = client
       ELSE mainPc' = "created" /\ client' = Ptr(NewRealOpenAIClient(env.OPENAI_API_KEY))
    /\ UNCHANGED <<env, routes, listenAddr, pc, inbound, parsed, outbound, calls,
                   reply, result, response, codecVars>>

\* main: the two http.HandleFunc calls.
mainHandleFunc ==
    /\ mainPc = "created"
    /\ routes' = {"/v1/chat/completions", "/health"}
    /\ mainPc' = "routed"
    /\ UNCHANGED <<env, client, listenAddr, pc, inbound, parsed, outbound, calls,
                   reply, result, response, codecVars>>

\* Mutant: PORT is not consulted.
ListenPortDefault(e) == "8080"

ListenPort(e) == IF e.PORT = "" THEN "8080" ELSE e.PORT

\* main: read the port and call http.ListenAndServe, which serves or fails.
mainListenAndServe ==
    /\ mainPc = "routed"
    /\ listenAddr' = <<":", ListenPort(env)>>
    /\ \E served \in BOOLEAN : mainPc' = IF served THEN "listening" ELSE "fatal"
    /\ UNCHANGED <<env, client, routes, pc, inbound, parsed, outbound, calls,
                   reply, result, response, codecVars>>

\* A request for /v1/chat/completions is dispatched to handleChatCompletions,
\* which answers it or blocks in the upstream call.
handleChatCompletions(r) ==
    /\ mainPc = "listening"
    /\ "/v1/chat/completions" \in routes
    /\ pc[r] = "idle"
    /\ \E method \in Methods, readErr \in BOOLEAN, body \in InboundBodies :
         LET h == handleChatCompletionsChecks(method, readErr, body) IN
         /\ readErr => body = Bytes("", NilPtr)
         /\ inbound' = [inbound EXCEPT ![r] =
                [route |-> "/v1/chat/completions", method |-> method,
                 readErr |-> readErr, body |-> body]]
         /\ parsed' = [parsed EXCEPT ![r] = h.req]
         /\ IF h.forward
            THEN /\ pc' = [pc EXCEPT ![r] = "upstream"]
                 /\ calls' = [calls EXCEPT ![r] = @ + 1]
                 /\ outbound' = [outbound EXCEPT ![r] =
                        Ptr(CreateChatCompletionSend(Deref(client), h.req))]
                 /\ response' = response
            ELSE /\ pc' = [pc EXCEPT ![r] = "done"]
                 /\ response' = [response EXCEPT ![r] = h.response]
                 /\ UNCHANGED <<calls, outbound>>
    /\ UNCHANGED <<env, mainPc, client, routes, listenAddr, reply, result, codecVars>>

\* The upstream call of request r returns and the handler writes its response.
handleChatCompletionsReturn(r) ==
    /\ pc[r] = "upstream"
    /\ \E rep \in ProviderReplies :
         LET res == CreateChatCompletionReturn(rep) IN
         /\ reply' = [reply EXCEPT ![r] = rep]
         /\ result' = [result EXCEPT ![r] = res]
         /\ response' = [response EXCEPT ![r] = handleChatCompletionsRespond(res)]
    /\ pc' = [pc EXCEPT ![r] = "done"]
    /\ UNCHANGED <<env, mainPc, client, routes, listenAddr, inbound, parsed,
                   outbound, calls, codecVars>>

\* A request for /health is dispatched to handleHealth.
handleHealth(r) ==
    /\ mainPc = "listening"
    /\ "/health" \in routes
    /\ pc[r] = "idle"
    /\ \E method \in Methods, body \in {Bytes("", NilPtr)} \cup ValidBodies :
         inbound' = [inbound EXCEPT ![r] =
                [route |-> "/health", method |-> method, readErr |-> FALSE, body |-> body]]
    /\ response' = [response EXCEPT ![r] = handleHealthRespond]
    /\ pc' = [pc EXCEPT ![r] = "done"]
    /\ UNCHANGED <<env, mainPc, client, routes, listenAddr, parsed, outbound,
                   calls, reply, result, codecVars>>

Next ==
    \/ mainCreate
    \/ mainHandleFunc
    \/ mainListenAndServe
    \/ \E r \in Requests : handleChatCompletions(r)
    \/ \E r \in Requests : handleChatCompletionsReturn(r)
    \/ \E r \in Requests : handleHealth(r)

Spec == Init /\ [][Next]_vars

----------------------------------------------------------------------------
(* The request codec on its own: marshal a ChatCompletionRequest, unmarshal  *)
(* the result (TestChatCompletionRequest_JSONMarshaling, over every request  *)
(* value of the bounded sets below instead of one).                          *)

Option(S) == {NilPtr} \cup {Ptr(v) : v \in S}

MessageValues == {Message("system", "You are a helpful assistant."), Message("user", "Hello!")}

MessageSlices ==
    {NilSlice} \cup
    {Slice(q) : q \in UNION {[1..n -> MessageValues] : n \in 0..MaxMessages}}

RequestValues ==
    [Model : {"", "gpt-3.5-turbo"},
     Messages : MessageSlices,
     Temperature : Option({0, 7}),
     MaxTokens : Option({0, 150}),
     TopP : Option({0, 10}),
     Stream : Option(BOOLEAN)]

ServerOff ==
    /\ env = [OPENAI_API_KEY |-> "", PORT |-> ""]
    /\ mainPc = "off"
    /\ client = NilPtr
    /\ routes = {}
    /\ listenAddr = <<>>
    /\ pc = [r \in Requests |-> "idle"]
    /\ inbound = [r \in Requests |-> NoRequest]
    /\ parsed = [r \in Requests |-> ZeroChatCompletionRequest]
    /\ outbound = [r \in Requests |-> NilPtr]
    /\ calls = [r \in Requests |-> 0]
    /\ reply = [r \in Requests |-> NoReply]
    /\ result = [r \in Requests |-> NoResult]
    /\ response = [r \in Requests |-> NoResponse]

CodecInit ==
    /\ ServerOff
    /\ rtPc = "start"
    /\ rtReq \in RequestValues
    /\ rtWire = Null
    /\ rtBack = ZeroChatCompletionRequest

\* jsonData, err := json.Marshal(original)
jsonMarshal ==
    /\ rtPc = "start"
    /\ rtWire' = MarshalChatCompletionRequest(rtReq)
    /\ rtPc' = "marshaled"
    /\ UNCHANGED <<rtReq, rtBack, serverVars>>

\* err := json.Unmarshal(jsonData, &unmarshaled)
jsonUnmarshal ==
    /\ rtPc = "marshaled"
    /\ IF ChatCompletionRequestOK(rtWire)
       THEN rtBack' = UnmarshalChatCompletionRequest(rtWire) /\ rtPc' = "done"
       ELSE rtBack' = rtBack /\ rtPc' = "error"
    /\ UNCHANGED <<rtReq, rtWire, serverVars>>

CodecNext == jsonMarshal \/ jsonUnmarshal

CodecSpec == CodecInit /\ [][CodecNext]_vars

----------------------------------------------------------------------------
(* Claims *)

Arrived(r) == pc[r] # "idle"
Done(r) == pc[r] = "done"
IsChat(r) == inbound[r].route = "/v1/chat/completions"
IsHealth(r) == inbound[r].route = "/health"
NoUpstreamCall(r) ==
    calls[r] = 0 /\ IsNil(outbound[r]) /\ reply[r] = NoReply /\ result[r] = NoResult

\* The inbound JSON value has no model, a null model or the empty string.
WireModelEmpty(v) ==
    v.t = "null" \/ ~Has(v.o, "model") \/ v.o["model"] \in {Null, Str("")}

\* The inbound JSON value has no messages, null or the empty array.
WireMessagesEmpty(v) ==
    v.t = "null" \/ ~Has(v.o, "messages") \/ v.o["messages"] \in {Null, Arr(<<>>)}

\* msg occurs in text as a run of consecutive fragments.
Contains(text, msg) ==
    \E i \in 1..(Len(text) - Len(msg) + 1) : SubSeq(text, i, i + Len(msg) - 1) = msg

\* C1: a POST whose body parses as a ChatCompletionRequest but has an empty or
\* absent model, or empty or absent messages, whatever its optional fields, is
\* answered 400 with a plain-text message naming the field, and
\* CreateChatCompletion is not invoked for it.
C1_MissingFieldRejected ==
    \A r \in Requests :
        (/\ Arrived(r) /\ IsChat(r)
         /\ inbound[r].method = "POST" /\ ~inbound[r].readErr
         /\ inbound[r].body \in InboundBodies \ MalformedBodies
         /\ \/ WireModelEmpty(Deref(inbound[r].body.json))
            \/ WireMessagesEmpty(Deref(inbound[r].body.json)))
        => /\ Done(r)
           /\ response[r].status = 400
           /\ response[r].contentType = "text/plain; charset=utf-8"
           /\ IsNil(response[r].json)
           /\ response[r].text \in
                { <<"Model field is required", "\n">>,
                  <<"Messages field is required and cannot be empty", "\n">> }
           /\ response[r].text = <<"Model field is required", "\n">>
                => WireModelEmpty(Deref(inbound[r].body.json))
           /\ response[r].text # <<"Model field is required", "\n">>
                => WireMessagesEmpty(Deref(inbound[r].body.json))
           /\ NoUpstreamCall(r)

C1_Witness ==
    \E r \in Requests :
        /\ Done(r) /\ IsChat(r) /\ inbound[r].method = "POST"
        /\ ~IsNil(inbound[r].body.json)
        /\ Deref(inbound[r].body.json) =
              Obj(("model" :> Str("gpt-3.5-turbo")) @@ ("messages" :> Arr(<<>>)))
        /\ response[r].status = 400
        /\ calls[r] = 0

\* C2: a request to handleChatCompletions with any method other than POST,
\* whatever its body (unreadable, malformed, incomplete or fully valid), is
\* answered 405 and CreateChatCompletion is not invoked for it.
C2_NonPostRejected ==
    \A r \in Requests :
        (Arrived(r) /\ IsChat(r) /\ inbound[r].method # "POST")
        => /\ Done(r)
           /\ response[r].status = 405
           /\ IsNil(response[r].json)
           /\ NoUpstreamCall(r)

C2_Witness ==
    \E r \in Requests :
        /\ Done(r) /\ IsChat(r) /\ inbound[r].method = "DELETE"
        /\ inbound[r].body \in ValidBodies
        /\ response[r].status = 405
        /\ calls[r] = 0

\* C3: a POST whose body is not a ChatCompletionRequest (no JSON at all, the
\* empty body, or a field of the wrong JSON type) is answered 400 and
\* CreateChatCompletion is not invoked for it.
C3_MalformedRejected ==
    \A r \in Requests :
        (/\ Arrived(r) /\ IsChat(r) /\ inbound[r].method = "POST"
         /\ ~inbound[r].readErr /\ inbound[r].body \in MalformedBodies)
        => /\ Done(r)
           /\ response[r].status = 400
           /\ IsNil(response[r].json)
           /\ NoUpstreamCall(r)

C3_Witness ==
    \E r \in Requests :
        /\ Done(r) /\ IsChat(r) /\ inbound[r].method = "POST"
        /\ ~IsNil(inbound[r].body.json)
        /\ Deref(inbound[r].body.json).t = "obj"
        /\ Has(Deref(inbound[r].body.json).o, "max_tokens")
        /\ Deref(inbound[r].body.json).o["max_tokens"] = Num(15)
        /\ response[r].status = 400
        /\ calls[r] = 0

\* C4: when the upstream call of a valid POST returns an error (the exchange
\* failed, the provider's status was not a success, or its body could not be
\* deserialised), the response is 500, its text contains the client's error
\* message, and no completion body is written.
C4_UpstreamErrorIs500 ==
    \A r \in Requests :
        (Done(r) /\ IsChat(r) /\ ~IsNil(result[r].err))
        => /\ inbound[r].method = "POST" /\ inbound[r].body \in ValidBodies
           /\ response[r].status = 500
           /\ Contains(response[r].text, Deref(result[r].err))
           /\ IsNil(response[r].json)
           /\ response[r].contentType # "application/json"

C4_Witness ==
    \E r \in Requests :
        /\ Done(r) /\ IsChat(r)
        /\ reply[r].transport = "ok" /\ reply[r].status = 429 /\ reply[r].body = ErrorBody
        /\ result[r].err = Ptr(<<"API error: ", "Rate limit exceeded">>)
        /\ response[r].status = 500
        /\ response[r].text = <<"OpenAI API error: ", "API error: ", "Rate limit exceeded", "\n">>

C6_ForwardedUnmodified ==
    \A r \in Requests :
        ~IsNil(outbound[r]) => Deref(outbound[r]).body = Deref(inbound[r].body.json)

\* C7: handleHealth answers 200 with the JSON body {"status":"healthy"} for
\* every method and body, whatever the other requests are doing, never invokes
\* the upstream client, and can answer whenever the server is listening.
C7_HealthAlwaysHealthy ==
    \A r \in Requests :
        /\ (Arrived(r) /\ IsHealth(r))
           => /\ Done(r)
              /\ response[r].status = 200
              /\ response[r].contentType = "application/json"
              /\ response[r].json = Ptr(Obj("status" :> Str("healthy")))
              /\ NoUpstreamCall(r)
        /\ (mainPc = "listening" /\ ~Arrived(r)) => ENABLED handleHealth(r)

C7_Witness ==
    \E r, q, p \in Requests :
        /\ Done(r) /\ IsHealth(r) /\ inbound[r].method = "DELETE"
        /\ inbound[r].body \in ValidBodies
        /\ response[r].status = 200
        /\ pc[q] = "upstream"
        /\ \/ NumRequests < 3
           \/ Done(p) /\ IsChat(p) /\ response[p].status = 500

\* C8: with an empty OPENAI_API_KEY main stops before a route is registered or
\* a port is listened on (and no request is ever served); with a credential
\* set, the address listened on is PORT when PORT is non-empty and 8080
\* otherwise, and the credential in use (in the client and in every upstream
\* Authorization header) is the one read at startup.
C8_Startup ==
    /\ env.OPENAI_API_KEY = ""
         => /\ mainPc \in {"start", "fatal"}
            /\ IsNil(client) /\ routes = {} /\ listenAddr = <<>>
            /\ \A r \in Requests : ~Arrived(r)
    /\ mainPc \in {"routed", "listening"}
         => routes = {"/v1/chat/completions", "/health"}
    /\ listenAddr # <<>>
         => /\ env.OPENAI_API_KEY # ""
            /\ routes # {}
            /\ listenAddr = <<":", IF env.PORT # "" THEN env.PORT ELSE "8080">>
    /\ mainPc = "listening" => listenAddr # <<>>
    /\ ~IsNil(client) => Deref(client).APIKey = env.OPENAI_API_KEY
    /\ \A r \in Requests :
         /\ Arrived(r) => mainPc = "listening"
         /\ ~IsNil(outbound[r])
              => Deref(outbound[r]).authorization = <<"Bearer ", env.OPENAI_API_KEY>>

C8_Witness ==
    /\ mainPc = "listening"
    /\ env.PORT = "3000"
    /\ listenAddr = <<":", "3000">>
    /\ \E r \in Requests : pc[r] = "upstream"

ParsedErrorBodies == {ErrorBody, CompletionBody}
UnparsedErrorBodies == ProviderBodies \ ParsedErrorBodies

\* The string at error.message of a JSON value, empty when there is none.
WireErrorMessage(v) ==
    IF Has(v.o, "error") /\ v.o["error"].t = "obj" /\ Has(v.o["error"].o, "message")
       /\ v.o["error"].o["message"].t = "str"
    THEN v.o["error"].o["message"].s
    ELSE ""

\* C10: when the provider answers with a non-success status, the call returns
\* no response and an error; the error is "API error: " followed by the
\* error.message of the body when the body parses as an ErrorResponse, and
\* otherwise carries the status code and the raw body text.
C10_ProviderErrorMessage ==
    \A r \in Requests :
        (Done(r) /\ reply[r].transport = "ok" /\ reply[r].status \notin 200..299)
        => /\ IsNil(result[r].resp)
           /\ ~IsNil(result[r].err)
           /\ reply[r].body \in ParsedErrorBodies
                => Deref(result[r].err) =
                      <<"API error: ", WireErrorMessage(Deref(reply[r].body.json))>>
           /\ reply[r].body \in UnparsedErrorBodies
                => /\ Contains(Deref(result[r].err), <<ToString(reply[r].status)>>)
                   /\ Contains(Deref(result[r].err), <<reply[r].body.text>>)

C10_Witness ==
    \E r \in Requests :
        /\ Done(r) /\ reply[r].transport = "ok" /\ reply[r].status = 429
        /\ reply[r].body = ErrorBody
        /\ result[r] = Failed(<<"API error: ", "Rate limit exceeded">>)

OptionalFields ==
    { <<"temperature", "Temperature">>, <<"max_tokens", "MaxTokens">>,
      <<"top_p", "TopP">>, <<"stream", "Stream">> }

\* C9: marshalling a ChatCompletionRequest and unmarshalling the result never
\* fails and gives back the same model, the same messages in the same order
\* and, for each of temperature, max_tokens, top_p and stream, the same
\* presence and value: an absent field is left out of the wire form (not
\* written as null) and a present zero or false is written and comes back.
C9_RoundTrip ==
    /\ rtPc # "error"
    /\ rtPc \in {"marshaled", "done"} =>
         \A f \in OptionalFields :
            /\ Has(rtWire.o, f[1]) <=> ~IsNil(rtReq[f[2]])
            /\ Has(rtWire.o, f[1]) => rtWire.o[f[1]].t # "null"
    /\ rtPc = "done" =>
         /\ rtBack.Model = rtReq.Model
         /\ rtBack.Messages.elems = rtReq.Messages.elems
         /\ \A f \in OptionalFields : rtBack[f[2]] = rtReq[f[2]]

C9_Witness ==
    /\ rtPc = "done"
    /\ rtReq.Temperature = Ptr(0)
    /\ rtReq.Stream = Ptr(FALSE)
    /\ IsNil(rtReq.TopP)
    /\ rtReq.MaxTokens = Ptr(150)
    /\ len(rtReq.Messages) = 2
    /\ rtReq.Messages.elems[1] # rtReq.Messages.elems[2]
    /\ rtBack = rtReq

\* Provider bodies that do not deserialise into a ChatCompletionResponse.
UndecodableBodies == {Bytes("upstream unavailable", NilPtr)}

\* The upstream-error cases: the exchange failed, the status is not 2xx, or
\* the body cannot be deserialised.
UpstreamErrorCase(rep) ==
    \/ rep.transport # "ok"
    \/ rep.status \notin 200..299
    \/ rep.body \in UndecodableBodies

\* C11: CreateChatCompletion returns an error exactly in the upstream-error
\* cases; for a reply with a 2xx status and a body that deserialises into a
\* ChatCompletionResponse it returns that response and no error, and the
\* proxy answers 200.
C11_ErrorExactlyInErrorCases ==
    \A r \in Requests :
        (Done(r) /\ IsChat(r) /\ calls[r] = 1)
        => /\ ~IsNil(result[r].err) <=> UpstreamErrorCase(reply[r])
           /\ ~UpstreamErrorCase(reply[r])
                => /\ ~IsNil(result[r].resp)
                   /\ response[r].status = 200

\* The request is a POST with a readable body that parses, a non-empty model
\* and at least one message.
ValidPost(r) ==
    /\ IsChat(r) /\ inbound[r].method = "POST" /\ ~inbound[r].readErr
    /\ inbound[r].body \in ValidBodies
    /\ ~WireModelEmpty(Deref(inbound[r].body.json))
    /\ ~WireMessagesEmpty(Deref(inbound[r].body.json))

C12_CallCount ==
    \A r \in Requests :
        /\ calls[r] \in {0, 1}
        /\ ~Arrived(r) => calls[r] = 0
        /\ Arrived(r) => (calls[r] = 1 <=> ValidPost(r))
        /\ calls[r] = 1 <=> ~IsNil(outbound[r])
        /\ (Done(r) /\ ~IsNil(result[r].err)) => (response[r].status = 500 /\ calls[r] = 1)

C12_Step ==
    \A r \in Requests :
        /\ calls'[r] # calls[r] => (pc[r] = "idle" /\ calls'[r] = calls[r] + 1)
        /\ Done(r) => /\ pc'[r] = "done"
                      /\ outbound'[r] = outbound[r]
                      /\ result'[r] = result[r]
                      /\ response'[r] = response[r]

\* C12: over the handling of one request CreateChatCompletion is invoked at
\* most once: exactly once for a POST with a parsable body, a non-empty model
\* and non-empty messages, never otherwise; the only step that invokes it is
\* the one that takes the request in, and once the request has its response
\* (the 500 after an upstream failure included) nothing about it changes and
\* no further call is made.
C12_NoRetries == []C12_CallCount /\ [][C12_Step]_vars

C12_Witness ==
    \E r \in Requests :
        /\ Done(r) /\ ValidPost(r)
        /\ reply[r].transport = "sendfail"
        /\ ~IsNil(result[r].err)
        /\ response[r].status = 500
        /\ calls[r] = 1

\* The status a request gets, from its own route, method and body and from
\* the provider's reply to its own upstream call.
OwnStatus(in, rep) ==
    IF in.route = "/health" THEN 200
    ELSE IF in.method # "POST" THEN 405
    ELSE IF in.readErr \/ in.body \notin ValidBodies THEN 400
    ELSE IF rep.transport = "ok" /\ rep.status = 200 /\ rep.body \notin UndecodableBodies
    THEN 200
    ELSE 500

\* C13: under every interleaving of the requests handled by one ProxyServer,
\* the response of a request follows from its own method and body and from
\* the reply to its own upstream call: its status is the one these give, a
\* 500 carries the error of its own call, a 200 the response of its own call,
\* and two requests with the same input and the same reply get the same
\* result and response.  A request blocked in its upstream call keeps no
\* other request from being taken in and answered, and can itself return
\* whatever the others are doing.
C13_RequestsIsolated ==
    /\ \A r \in Requests :
         /\ Done(r) => response[r].status = OwnStatus(inbound[r], reply[r])
         /\ (Done(r) /\ ~IsNil(result[r].err))
              => response[r].text = <<"OpenAI API error: ">> \o Deref(result[r].err) \o <<"\n">>
         /\ (Done(r) /\ ~IsNil(result[r].resp))
              => /\ ~IsNil(response[r].json)
                 /\ StrField(Deref(response[r].json).o, "id") = Deref(result[r].resp).ID
                 /\ ~IsNil(reply[r].body.json)
                 /\ Deref(reply[r].body.json).t = "obj"
                 /\ StrField(Deref(reply[r].body.json).o, "id") = Deref(result[r].resp).ID
         /\ pc[r] = "upstream" => ENABLED handleChatCompletionsReturn(r)
    /\ \A r, q \in Requests :
         /\ (Done(r) /\ Done(q) /\ inbound[r] = inbound[q] /\ reply[r] = reply[q])
              => (result[r] = result[q] /\ response[r] = response[q])
         /\ (pc[q] = "upstream" /\ pc[r] = "idle")
              => (ENABLED handleChatCompletions(r) /\ ENABLED handleHealth(r))

C13_Witness ==
    \E r, q \in Requests :
        /\ r # q
        /\ ValidPost(r) /\ ValidPost(q)
        /\ inbound[r] = inbound[q]
        /\ pc[q] = "upstream"
        /\ Done(r)
        /\ reply[r].status = 200 /\ reply[r].body = CompletionBody
        /\ response[r].status = 200

\* C14: handleChatCompletions checks the method, then the JSON, then the
\* model, then the messages, then calls upstream, and the first check that
\* fails alone decides the response: a non-POST request gets 405 whatever its
\* body, a POST that does not parse gets the invalid-JSON message whatever its
\* fields, a POST with model and messages both empty gets the model message,
\* and one with only the messages empty the messages message.  A request in
\* flight has no status yet; a finished one has exactly one of 405, 400, 500
\* and 200, and 200 only after every check passed and its upstream call
\* returned without error.
C14_CheckOrder ==
    \A r \in Requests :
        (Arrived(r) /\ IsChat(r)) =>
        LET in == inbound[r]
            parses == ~in.readErr /\ in.body \in InboundBodies \ MalformedBodies
        IN
        /\ in.method # "POST"
             => response[r] = httpError(<<"Method not allowed">>, 405)
        /\ (in.method = "POST" /\ in.readErr)
             => response[r] = httpError(<<"Failed to read request body">>, 400)
        /\ (in.method = "POST" /\ ~in.readErr /\ in.body \in MalformedBodies)
             => response[r] = httpError(<<"Invalid JSON in request body">>, 400)
        /\ (in.method = "POST" /\ parses /\ WireModelEmpty(Deref(in.body.json)))
             => response[r] = httpError(<<"Model field is required">>, 400)
        /\ (in.method = "POST" /\ parses /\ ~WireModelEmpty(Deref(in.body.json))
              /\ WireMessagesEmpty(Deref(in.body.json)))
             => response[r] =
                   httpError(<<"Messages field is required and cannot be empty">>, 400)
        /\ IF Done(r) THEN response[r].status \in {405, 400, 500, 200}
           ELSE response[r] = NoResponse
        /\ response[r].status \in {500, 200}
             => (ValidPost(r) /\ calls[r] = 1 /\ reply[r] # NoReply)
        /\ response[r].status = 200
             => (IsNil(result[r].err) /\ ~IsNil(result[r].resp))

C14_Witness ==
    \E r, q \in Requests :
        /\ Done(r) /\ IsChat(r) /\ inbound[r].method = "POST"
        /\ inbound[r].body = Bytes("{\"model\":\"\",\"messages\":[]}",
                Ptr(Obj(("model" :> Str("")) @@ ("messages" :> Arr(<<>>)))))
        /\ response[r].text = <<"Model field is required", "\n">>
        /\ Done(q) /\ IsChat(q) /\ inbound[q].method = "GET"
        /\ inbound[q].body = Bytes("invalid json", NilPtr)
        /\ response[q].status = 405

====
